---- MODULE Spec2Model ----
(***************************************************************************)
(* Two-body orbit integrator (utils.py, driven by main.py): time grid,     *)
(* trajectory buffers, Euler and RK4 steppers, the fixed-step loop of      *)
(* run_integration and the aphelion locator compute_aphelion.              *)
(*                                                                         *)
(* Numbers.  The program computes in IEEE doubles.  Here a number is a     *)
(* record: a finite value "fin" carrying an integer, an infinity "inf"     *)
(* carrying its sign, or "nan".  Finite arithmetic is fixed point on the   *)
(* integers: + - * are exact, and the two operations that round in the     *)
(* program (the division of acc_fn and the square root of the norm) round  *)
(* toward zero.  Division by zero, inf and nan follow numpy's float64      *)
(* rules under its default error state (a warning, no exception).          *)
(* Arrays are functions on 0..n-1, as the program indexes them.            *)
(***************************************************************************)
EXTENDS Integers, Sequences, FiniteSets, TLC

VARIABLES
    pc,         \* position of the driver (main.py) or of the call under study
    cfg,        \* configuration read by get_time_settings
    planet_cfg, \* the planet's block of the configuration
    method,     \* the method name as the caller gives it (a sequence of characters)
    method_lc,  \* run_integration's local `method` after line 144
    G, M,       \* constants captured by create_acceleration_fn
    r0, v0,     \* initial state
    dt,         \* time step
    t,          \* time grid
    r, v,       \* trajectory buffers
    i,          \* loop index of run_integration
    err,        \* the exception that ended the run, if any
    calls,      \* log: one record per Stepper call of run_integration
    rPre, vPre, \* log: the buffers as they were when run_integration was entered
    ap,         \* result of compute_aphelion
    step        \* result of a single stepper call

vars == <<pc, cfg, planet_cfg, method, method_lc, G, M, r0, v0, dt, t, r, v, i, err,
          calls, rPre, vPre, ap, step>>

-----------------------------------------------------------------------------
(* float64 values *)

Fin(n)  == [k |-> "fin", n |-> n]
NaN     == [k |-> "nan", n |-> 0]
PInf    == [k |-> "inf", n |-> 1]
NInf    == [k |-> "inf", n |-> -1]

IsFin(a) == a.k = "fin"
IsNaN(a) == a.k = "nan"
IsInf(a) == a.k = "inf"

Sign(n) == IF n > 0 THEN 1 ELSE IF n < 0 THEN -1 ELSE 0
Abs(n)  == IF n < 0 THEN -n ELSE n
Inf(s)  == IF s > 0 THEN PInf ELSE NInf

\* The arithmetic is written as functions of values, so that an operand is
\* evaluated once, as the program evaluates it.
Val  == [k : {"fin", "inf", "nan"}, n : Int]
Vec2 == Val \X Val

FNeg[a \in Val] ==
    IF IsFin(a) THEN Fin(-a.n)
    ELSE IF IsInf(a) THEN Inf(-a.n)
    ELSE NaN

FAdd[a \in Val, b \in Val] ==
    IF IsNaN(a) \/ IsNaN(b) THEN NaN
    ELSE IF IsInf(a) /\ IsInf(b) THEN (IF a.n = b.n THEN a ELSE NaN)
    ELSE IF IsInf(a) THEN a
    ELSE IF IsInf(b) THEN b
    ELSE Fin(a.n + b.n)

FMul[a \in Val, b \in Val] ==
    IF IsNaN(a) \/ IsNaN(b) THEN NaN
    ELSE IF IsInf(a) \/ IsInf(b)
         THEN (IF Sign(a.n) * Sign(b.n) = 0 THEN NaN ELSE Inf(Sign(a.n) * Sign(b.n)))
    ELSE Fin(a.n * b.n)

\* a / b, rounded toward zero; x/0 is +-inf, 0/0 is nan (numpy float64).
FDiv[a \in Val, b \in Val] ==
    IF IsNaN(a) \/ IsNaN(b) THEN NaN
    ELSE IF IsInf(a) /\ IsInf(b) THEN NaN
    ELSE IF IsInf(a) THEN (IF b.n < 0 THEN Inf(-a.n) ELSE a)
    ELSE IF IsInf(b) THEN Fin(0)
    ELSE IF b.n = 0 THEN (IF a.n = 0 THEN NaN ELSE Inf(Sign(a.n)))
    ELSE Fin(Sign(a.n) * Sign(b.n) * (Abs(a.n) \div Abs(b.n)))

\* Largest k with k*k <= n, by bisection on lo..hi (lo*lo <= n < (hi+1)*(hi+1)).
ISqrtIn[n \in Nat, lo \in Nat, hi \in Nat] ==
    IF lo >= hi THEN lo
    ELSE IF ((lo + hi + 1) \div 2) * ((lo + hi + 1) \div 2) <= n
         THEN ISqrtIn[n, (lo + hi + 1) \div 2, hi]
         ELSE ISqrtIn[n, lo, ((lo + hi + 1) \div 2) - 1]

ISqrt[n \in Nat] == ISqrtIn[n, 0, IF n < 46340 THEN n ELSE 46340]

FSqrt[a \in Val] ==
    IF IsNaN(a) THEN NaN
    ELSE IF IsInf(a) THEN (IF a.n > 0 THEN PInf ELSE NaN)
    ELSE IF a.n < 0 THEN NaN
    ELSE Fin(ISqrt[a.n])

\* a < b as float64 compares: false whenever a nan is involved.
FLess[a \in Val, b \in Val] ==
    IF IsNaN(a) \/ IsNaN(b) THEN FALSE
    ELSE IF IsInf(a) THEN (a.n < 0 /\ ~(IsInf(b) /\ b.n < 0))
    ELSE IF IsInf(b) THEN b.n > 0
    ELSE a.n < b.n

-----------------------------------------------------------------------------
(* 2-vectors and arrays *)

Vec(x, y)      == <<Fin(x), Fin(y)>>
VNaN           == <<NaN, NaN>>
VHasNaN(a)     == IsNaN(a[1]) \/ IsNaN(a[2])
VIsFin(a)      == IsFin(a[1]) /\ IsFin(a[2])

VAdd[a \in Vec2, b \in Vec2]   == <<FAdd[a[1], b[1]], FAdd[a[2], b[2]]>>
VScale[s \in Val, a \in Vec2]  == <<FMul[s, a[1]], FMul[s, a[2]]>>

\* np.linalg.norm of one row: sqrt(x*x + y*y).
norm[a \in Vec2] == FSqrt[FAdd[FMul[a[1], a[1]], FMul[a[2], a[2]]]]

ALen(a)   == Cardinality(DOMAIN a)
\* a[j] with Python's wrap-around of a negative index.
At(a, j)  == IF j < 0 THEN a[ALen(a) + j] ELSE a[j]
\* a[c:] for 0 <= c
SliceFrom(a, c) == [j \in 0..(ALen(a) - c - 1) |-> a[j + c]]

-----------------------------------------------------------------------------
(* AccelerationModel: the closure acc_fn of create_acceleration_fn(G, M) *)

\* a / n**3, taken as three successive quotients by n: for truncated
\* division of non-negative integers the two agree
\* (a \div (n*n*n) = ((a \div n) \div n) \div n), as they do for an n that is
\* zero, infinite or nan, and the cube need not fit a machine integer.
InvCube[a \in Val, n \in Val] == FDiv[FDiv[FDiv[a, n], n], n]

\* -(G * M / norm**3) * r_vec.  The evaluation order is the program's: the
\* norm, the quotient, its negation, then the product with the vector.
acc_fn[g \in Int, m \in Int, r_vec \in Vec2] ==
    VScale[FNeg[InvCube[FMul[Fin(g), Fin(m)], norm[r_vec]]], r_vec]

-----------------------------------------------------------------------------
(* Steppers.  Each returns the new state, the positions at which it         *)
(* evaluated acc_fn, in order, and its two array arguments as they are when *)
(* it returns.                                                              *)

\* euler_step with the position advanced by the updated velocity.
euler_step_semi_implicit(r_old, v_old, h, g, m) ==
    LET a_old == acc_fn[g, m, r_old]
        v_new == VAdd[v_old, VScale[Fin(h), a_old]]
        r_new == VAdd[r_old, VScale[Fin(h), v_new]]
    IN  [r_new |-> r_new, v_new |-> v_new, evals |-> <<r_old>>,
         r_old |-> r_old, v_old |-> v_old]

euler_step(r_old, v_old, h, g, m) ==
    LET a_old == acc_fn[g, m, r_old]
        r_new == VAdd[r_old, VScale[Fin(h), v_old]]
        v_new == VAdd[v_old, VScale[Fin(h), a_old]]
    IN  [r_new |-> r_new, v_new |-> v_new, evals |-> <<r_old>>,
         r_old |-> r_old, v_old |-> v_old]

\* Weighted sum k1 + 2*k2 + 2*k3 + k4, left to right.
Rk4Sum(k1, k2, k3, k4) ==
    VAdd[VAdd[VAdd[k1, VScale[Fin(2), k2]], VScale[Fin(2), k3]], k4]

\* rk4_step with the third evaluation point built from k1_r instead of k2_r.
rk4_step_stale_k3(r_old, v_old, h, g, m) ==
    LET half == FDiv[Fin(h), Fin(2)]
        p1   == r_old
        k1_v == acc_fn[g, m, p1]
        k1_r == v_old
        k2_r == VAdd[v_old, VScale[half, k1_v]]
        p2   == VAdd[r_old, VScale[half, k1_r]]
        k2_v == acc_fn[g, m, p2]
        k3_r == VAdd[v_old, VScale[half, k2_v]]
        p3   == VAdd[r_old, VScale[half, k1_r]]
        k3_v == acc_fn[g, m, p3]
        k4_r == VAdd[v_old, VScale[Fin(h), k3_v]]
        p4   == VAdd[r_old, VScale[Fin(h), k3_r]]
        k4_v == acc_fn[g, m, p4]
        w    == FDiv[Fin(h), Fin(6)]
    IN  [r_new |-> VAdd[r_old, VScale[w, Rk4Sum(k1_r, k2_r, k3_r, k4_r)]],
         v_new |-> VAdd[v_old, VScale[w, Rk4Sum(k1_v, k2_v, k3_v, k4_v)]],
         evals |-> <<p1, p2, p3, p4>>,
         r_old |-> r_old, v_old |-> v_old]

rk4_step(r_old, v_old, h, g, m) ==
    LET half == FDiv[Fin(h), Fin(2)]
        p1   == r_old
        k1_v == acc_fn[g, m, p1]
        k1_r == v_old
        k2_r == VAdd[v_old, VScale[half, k1_v]]
        p2   == VAdd[r_old, VScale[half, k1_r]]
        k2_v == acc_fn[g, m, p2]
        k3_r == VAdd[v_old, VScale[half, k2_v]]
        p3   == VAdd[r_old, VScale[half, k2_r]]
        k3_v == acc_fn[g, m, p3]
        k4_r == VAdd[v_old, VScale[Fin(h), k3_v]]
        p4   == VAdd[r_old, VScale[Fin(h), k3_r]]
        k4_v == acc_fn[g, m, p4]
        w    == FDiv[Fin(h), Fin(6)]
    IN  [r_new |-> VAdd[r_old, VScale[w, Rk4Sum(k1_r, k2_r, k3_r, k4_r)]],
         v_new |-> VAdd[v_old, VScale[w, Rk4Sum(k1_v, k2_v, k3_v, k4_v)]],
         evals |-> <<p1, p2, p3, p4>>,
         r_old |-> r_old, v_old |-> v_old]

-----------------------------------------------------------------------------
(* Exceptions *)

NoErr         == [type |-> "none", msg |-> ""]
UnknownMethod == [type |-> "ValueError", msg |-> "Unknown numerical method. Use 'euler' or 'rk4'."]
ArgmaxEmpty   == [type |-> "ValueError", msg |-> "attempt to get argmax of an empty sequence"]
IndexZero     == [type |-> "IndexError", msg |-> "index 0 is out of bounds for axis 0 with size 0"]

-----------------------------------------------------------------------------
(* Time grid: get_time_settings.  An optional key of a dict is a sequence  *)
(* of length 0 (absent) or 1 (present).                                    *)

CeilDiv(a, b) == (a + b - 1) \div b

\* arange dropping the last, partial stride.
arange_floor(start, stop, stride) ==
    LET len == IF stop > start THEN (stop - start) \div stride ELSE 0
    IN  [j \in 0..(len - 1) |-> start + j * stride]

\* np.arange(start, stop, stride) for a positive stride: start, start+stride, ...
\* while below stop.
arange(start, stop, stride) ==
    LET len == IF stop > start THEN CeilDiv(stop - start, stride) ELSE 0
    IN  [j \in 0..(len - 1) |-> start + j * stride]

get_time_settings(c, pcfg) ==
    LET time_step == IF c.numerical_method_settings # <<>>
                     THEN c.numerical_method_settings[1].time_step
                     ELSE 3600
        fallback  == IF c.default_simulation_days # <<>>
                     THEN c.default_simulation_days[1]
                     ELSE 365
        sim_days  == IF pcfg.orbital_period_days # <<>>
                     THEN pcfg.orbital_period_days[1]
                     ELSE fallback
        t_max     == sim_days * 24 * 3600
    IN  [time_step |-> time_step, t |-> arange(0, t_max, time_step), t_max |-> t_max]

-----------------------------------------------------------------------------
(* Buffers: initialize_arrays *)

zeros(n) == [j \in 0..(n - 1) |-> Vec(0, 0)]

initialize_arrays(p0, w0, grid) ==
    IF ALen(grid) = 0
    THEN [ok |-> FALSE, err |-> IndexZero]      \* r[0] = r0 on an empty array
    ELSE [ok |-> TRUE, r |-> [zeros(ALen(grid)) EXCEPT ![0] = p0],
                       v |-> [zeros(ALen(grid)) EXCEPT ![0] = w0]]

-----------------------------------------------------------------------------
(* Method names: str.lower() *)

UpperCase == <<"A","B","C","D","E","F","G","H","I","J","K","L","M",
               "N","O","P","Q","R","S","T","U","V","W","X","Y","Z">>
LowerCase == <<"a","b","c","d","e","f","g","h","i","j","k","l","m",
               "n","o","p","q","r","s","t","u","v","w","x","y","z">>

LowerChar(c) ==
    IF \E j \in 1..Len(UpperCase) : UpperCase[j] = c
    THEN LowerCase[CHOOSE j \in 1..Len(UpperCase) : UpperCase[j] = c]
    ELSE c

lower(s) == [j \in 1..Len(s) |-> LowerChar(s[j])]

S_euler == <<"e","u","l","e","r">>
S_rk4   == <<"r","k","4">>

-----------------------------------------------------------------------------
(* TrajectoryIntegrator: run_integration *)

\* range(0, len(r)) and range(1, len(r) - 1).
range_from_zero(n) == [first |-> 0, stop |-> n]
range_one_short(n) == [first |-> 1, stop |-> n - 1]

\* range(1, len(r))
run_range(n) == [first |-> 1, stop |-> n]

\* One pass through the loop body at index j, with the lowered method name.
\* The loop body with euler as the default branch and no else.
loop_body_default_euler(m, rr, vv, j, h, g, mm) ==
    IF m = S_rk4
    THEN LET s == rk4_step(At(rr, j - 1), At(vv, j - 1), h, g, mm)
         IN  [ok |-> TRUE, stepper |-> "rk4_step", res |-> s,
              r |-> [rr EXCEPT ![j] = s.r_new], v |-> [vv EXCEPT ![j] = s.v_new]]
    ELSE LET s == euler_step(At(rr, j - 1), At(vv, j - 1), h, g, mm)
         IN  [ok |-> TRUE, stepper |-> "euler_step", res |-> s,
              r |-> [rr EXCEPT ![j] = s.r_new], v |-> [vv EXCEPT ![j] = s.v_new]]

loop_body(m, rr, vv, j, h, g, mm) ==
    IF m = S_euler
    THEN LET s == euler_step(At(rr, j - 1), At(vv, j - 1), h, g, mm)
         IN  [ok |-> TRUE, stepper |-> "euler_step", res |-> s,
              r |-> [rr EXCEPT ![j] = s.r_new], v |-> [vv EXCEPT ![j] = s.v_new]]
    ELSE IF m = S_rk4
    THEN LET s == rk4_step(At(rr, j - 1), At(vv, j - 1), h, g, mm)
         IN  [ok |-> TRUE, stepper |-> "rk4_step", res |-> s,
              r |-> [rr EXCEPT ![j] = s.r_new], v |-> [vv EXCEPT ![j] = s.v_new]]
    ELSE [ok |-> FALSE, err |-> UnknownMethod]

-----------------------------------------------------------------------------
(* ApsisLocator: compute_aphelion *)

\* np.argmax of a non-empty array: the first nan if there is one, else the
\* first index holding the greatest value.
argmax(d) ==
    LET idx == DOMAIN d
        nans == {j \in idx : IsNaN(d[j])}
    IN  IF nans # {}
        THEN CHOOSE j \in nans : \A q \in nans : j <= q
        ELSE CHOOSE j \in idx :
                 /\ \A q \in idx : ~FLess[d[j], d[q]]
                 /\ \A q \in idx : q < j => FLess[d[q], d[j]]

MaxOf(a, b) == IF a >= b THEN a ELSE b

\* max(1, int(len(r) * 0.05)): five hundredths of n, truncated.
cutoff_of(n) == MaxOf(1, (5 * n) \div 100)

\* compute_aphelion without the recomputation for index 0.
compute_aphelion_no_fallback(rr, vv) ==
    LET distances == [j \in DOMAIN rr |-> norm[rr[j]]]
    IN  IF ALen(distances) = 0
        THEN [ok |-> FALSE, err |-> ArgmaxEmpty, trace |-> <<>>]
        ELSE LET idx_ap == argmax(distances)
             IN  [ok |-> TRUE, pos_ap |-> distances[idx_ap], vel_ap |-> vv[idx_ap],
                  idx_ap |-> idx_ap,
                  trace |-> <<"distances[idx_ap]", "v[idx_ap]">>]

\* The result, or the exception raised, with the subscript and slice
\* operations applied to distances and v, in order.
compute_aphelion(rr, vv) ==
    LET distances == [j \in DOMAIN rr |-> norm[rr[j]]]
    IN  IF ALen(distances) = 0
        THEN [ok |-> FALSE, err |-> ArgmaxEmpty, trace |-> <<>>]
        ELSE LET raw == argmax(distances)
             IN  IF raw = 0
                 THEN LET cutoff == cutoff_of(ALen(rr))
                          rest   == SliceFrom(distances, cutoff)
                      IN  IF ALen(rest) = 0
                          THEN [ok |-> FALSE, err |-> ArgmaxEmpty,
                                trace |-> <<"distances[cutoff:]">>]
                          ELSE LET idx_ap == argmax(rest) + cutoff
                               IN  [ok |-> TRUE, pos_ap |-> distances[idx_ap],
                                    vel_ap |-> vv[idx_ap], idx_ap |-> idx_ap,
                                    trace |-> <<"distances[cutoff:]",
                                                "distances[idx_ap]", "v[idx_ap]">>]
                 ELSE [ok |-> TRUE, pos_ap |-> distances[raw], vel_ap |-> vv[raw],
                       idx_ap |-> raw,
                       trace |-> <<"distances[idx_ap]", "v[idx_ap]">>]

-----------------------------------------------------------------------------
(* Actions *)

GetTimeSettings ==
    /\ pc = "get_time_settings"
    /\ LET ts == get_time_settings(cfg, planet_cfg)
       IN  /\ dt' = ts.time_step
           /\ t' = ts.t
    /\ pc' = "initialize_arrays"
    /\ UNCHANGED <<cfg, planet_cfg, method, method_lc, G, M, r0, v0, r, v, i, err,
                   calls, rPre, vPre, ap, step>>

InitializeArrays ==
    /\ pc = "initialize_arrays"
    /\ LET res == initialize_arrays(r0, v0, t)
       IN  IF res.ok
           THEN /\ r' = res.r
                /\ v' = res.v
                /\ pc' = "run_integration"
                /\ err' = err
           ELSE /\ err' = res.err
                /\ pc' = "failed"
                /\ UNCHANGED <<r, v>>
    /\ UNCHANGED <<cfg, planet_cfg, method, method_lc, G, M, r0, v0, dt, t, i,
                   calls, rPre, vPre, ap, step>>

\* run_integration is entered: method = method.lower(), the loop starts.
RunIntegrationEnter ==
    /\ pc = "run_integration"
    /\ method_lc' = lower(method)
    /\ i' = run_range(ALen(r)).first
    /\ rPre' = r
    /\ vPre' = v
    /\ pc' = "loop"
    /\ UNCHANGED <<cfg, planet_cfg, method, G, M, r0, v0, dt, t, r, v, err,
                   calls, ap, step>>

\* One iteration of the loop: a Stepper call and the write of sample i, or
\* the ValueError of the else branch.
RunIntegrationStep ==
    /\ pc = "loop"
    /\ i < run_range(ALen(r)).stop
    /\ LET b == loop_body(method_lc, r, v, i, dt, G, M)
       IN  IF b.ok
           THEN /\ r' = b.r
                /\ v' = b.v
                /\ calls' = Append(calls, [stepper |-> b.stepper, i |-> i,
                                           r_old |-> At(r, i - 1), v_old |-> At(v, i - 1),
                                           res |-> b.res])
                /\ i' = i + 1
                /\ UNCHANGED <<pc, err>>
           ELSE /\ err' = b.err
                /\ pc' = "failed"
                /\ UNCHANGED <<r, v, calls, i>>
    /\ UNCHANGED <<cfg, planet_cfg, method, method_lc, G, M, r0, v0, dt, t,
                   rPre, vPre, ap, step>>

\* The range is exhausted: run_integration returns.
RunIntegrationReturn ==
    /\ pc = "loop"
    /\ i >= run_range(ALen(r)).stop
    /\ pc' = "compute_aphelion"
    /\ UNCHANGED <<cfg, planet_cfg, method, method_lc, G, M, r0, v0, dt, t, r, v, i,
                   err, calls, rPre, vPre, ap, step>>

ComputeAphelion ==
    /\ pc = "compute_aphelion"
    /\ ap' = compute_aphelion(r, v)
    /\ IF ap'.ok
       THEN pc' = "done" /\ err' = err
       ELSE pc' = "failed" /\ err' = ap'.err
    /\ UNCHANGED <<cfg, planet_cfg, method, method_lc, G, M, r0, v0, dt, t, r, v, i,
                   calls, rPre, vPre, step>>

EulerStep ==
    /\ pc = "stepper"
    /\ step' = [stepper |-> "euler_step", res |-> euler_step(r0, v0, dt, G, M)]
    /\ pc' = "stepped"
    /\ UNCHANGED <<cfg, planet_cfg, method, method_lc, G, M, r0, v0, dt, t, r, v, i,
                   err, calls, rPre, vPre, ap>>

Rk4Step ==
    /\ pc = "stepper"
    /\ step' = [stepper |-> "rk4_step", res |-> rk4_step(r0, v0, dt, G, M)]
    /\ pc' = "stepped"
    /\ UNCHANGED <<cfg, planet_cfg, method, method_lc, G, M, r0, v0, dt, t, r, v, i,
                   err, calls, rPre, vPre, ap>>

-----------------------------------------------------------------------------
(* Inputs *)

MaxN      == 4      \* longest time grid of the driver's run
MaxApLen  == 3      \* longest trajectory enumerated sample by sample
LongLen   == 40     \* length of the long trajectories (5% of it exceeds 1)

DtSet     == {6, 12}
GSet      == {1}
MSet      == {8, 64}
R0Set     == {Vec(0, 0), Vec(6, 0), Vec(2, 0), Vec(3, 4)}
V0Set     == {Vec(0, -1), Vec(-1, 0), Vec(0, 0)}

MethodSet == {S_euler, S_rk4,
              <<"E","u","l","e","r">>, <<"R","K","4">>, <<"E","U","L","E","R">>,
              <<"l","e","a","p","f","r","o","g">>, <<"R","K","4","5">>, <<>>}

NoCfg       == [numerical_method_settings |-> <<>>, default_simulation_days |-> <<>>]
NoPlanetCfg == [orbital_period_days |-> <<>>]
NoAp        == [ok |-> FALSE, err |-> NoErr, trace |-> <<>>]
NoStep      == [stepper |-> "none"]

\* main.py up to the call of initialize_arrays, the time grid given.
Init ==
    /\ pc = "initialize_arrays"
    /\ cfg = NoCfg
    /\ planet_cfg = NoPlanetCfg
    /\ method \in MethodSet
    /\ method_lc = <<>>
    /\ G \in GSet
    /\ M \in MSet
    /\ r0 \in R0Set
    /\ v0 \in V0Set
    /\ dt \in DtSet
    /\ \E n \in 0..MaxN : t = arange(0, n * dt, dt)
    /\ r = <<>>
    /\ v = <<>>
    /\ i = 0
    /\ err = NoErr
    /\ calls = <<>>
    /\ rPre = <<>>
    /\ vPre = <<>>
    /\ ap = NoAp
    /\ step = NoStep

Next ==
    \/ InitializeArrays
    \/ RunIntegrationEnter
    \/ RunIntegrationStep
    \/ RunIntegrationReturn
    \/ ComputeAphelion

Spec == Init /\ [][Next]_vars

(* The time grid built from the configuration, then the buffers. *)

TimeStepSet == {21600, 30000, 43200, 50000, 86400, 100000}
DaysSet     == {0, 1, 2, 3}

CfgSet ==
    { [numerical_method_settings |-> nms, default_simulation_days |-> dsd] :
        nms \in {<<>>} \cup { <<[time_step |-> ts]>> : ts \in TimeStepSet },
        dsd \in {<<>>} \cup { <<d>> : d \in DaysSet } }

PlanetCfgSet ==
    { [orbital_period_days |-> opd] : opd \in {<<>>} \cup { <<d>> : d \in DaysSet } }

InitTime ==
    /\ pc = "get_time_settings"
    /\ cfg \in CfgSet
    /\ planet_cfg \in PlanetCfgSet
    /\ method = S_rk4
    /\ method_lc = <<>>
    /\ G = 1
    /\ M = 8
    /\ r0 = Vec(6, 0)
    /\ v0 = Vec(0, -1)
    /\ dt = 0
    /\ t = <<>>
    /\ r = <<>>
    /\ v = <<>>
    /\ i = 0
    /\ err = NoErr
    /\ calls = <<>>
    /\ rPre = <<>>
    /\ vPre = <<>>
    /\ ap = NoAp
    /\ step = NoStep

NextTime == GetTimeSettings \/ InitializeArrays

SpecTime == InitTime /\ [][NextTime]_vars

(* One stepper call on a given state. *)

RGrid == {-2, 0, 1, 3}
VGrid == {-5, -2, 0, 1}

InitStep ==
    /\ pc = "stepper"
    /\ cfg = NoCfg
    /\ planet_cfg = NoPlanetCfg
    /\ method = <<>>
    /\ method_lc = <<>>
    /\ G \in GSet
    /\ M \in MSet
    /\ r0 \in {Vec(x, y) : x \in RGrid, y \in RGrid}
    /\ v0 \in {Vec(x, y) : x \in VGrid, y \in VGrid}
    /\ dt \in DtSet
    /\ t = <<>>
    /\ r = <<>>
    /\ v = <<>>
    /\ i = 0
    /\ err = NoErr
    /\ calls = <<>>
    /\ rPre = <<>>
    /\ vPre = <<>>
    /\ ap = NoAp
    /\ step = NoStep

NextStep == EulerStep \/ Rk4Step

SpecStep == InitStep /\ [][NextStep]_vars

(* compute_aphelion on a given trajectory. *)

SampleSet == {Vec(0, 0), Vec(1, 0), Vec(0, -2), Vec(3, 4), VNaN}

\* Velocities that tell the samples apart.
Tagged(n) == [j \in 0..(n - 1) |-> Vec(j, -j)]

ShortTrajectories ==
    UNION { [0..(n - 1) -> SampleSet] : n \in 0..MaxApLen }

\* Distance z at sample 0, h1 at sample p, h2 at sample q, 1 elsewhere.
Long(n, z, p, h1, q, h2) ==
    [j \in 0..(n - 1) |->
        IF j = 0 THEN Vec(z, 0)
        ELSE IF j = p THEN Vec(0, h1)
        ELSE IF j = q THEN Vec(-h2, 0)
        ELSE Vec(1, 0)]

LongTrajectories ==
    { Long(n, z, p, h1, q, h2) :
        n \in {LongLen, LongLen + 1}, z \in {2, 9}, p \in {1, 2}, h1 \in {3, 5},
        q \in {3, LongLen - 1}, h2 \in {3, 5} }

InitAp ==
    /\ pc = "compute_aphelion"
    /\ cfg = NoCfg
    /\ planet_cfg = NoPlanetCfg
    /\ method = <<>>
    /\ method_lc = <<>>
    /\ G = 1
    /\ M = 8
    /\ r0 = Vec(0, 0)
    /\ v0 = Vec(0, 0)
    /\ dt = 6
    /\ t = <<>>
    /\ r \in ShortTrajectories \cup LongTrajectories
    /\ v = Tagged(ALen(r))
    /\ i = 0
    /\ err = NoErr
    /\ calls = <<>>
    /\ rPre = <<>>
    /\ vPre = <<>>
    /\ ap = NoAp
    /\ step = NoStep

NextAp == ComputeAphelion

SpecAp == InitAp /\ [][NextAp]_vars

-----------------------------------------------------------------------------
(* Properties of run_integration (specification Spec) *)

\* The method name is one of the two accepted values, ignoring case.
Accepted(m) == lower(m) = S_euler \/ lower(m) = S_rk4

\* run_integration has returned to main.py, or has raised.
RunReturned == pc \in {"compute_aphelion", "done"} \/ (pc = "failed" /\ err = ArgmaxEmpty)
RunRaised   == pc = "failed" /\ err = UnknownMethod
RunEntered  == pc = "loop" \/ RunReturned \/ RunRaised

\* C1: run_integration called with a method name that, ignoring case, is
\* neither "euler" nor "rk4" fails with the unknown-method error for every
\* buffer length, and raises it before any Stepper call.
C1_UnknownMethodFails ==
    ((RunReturned \/ RunRaised) /\ ~Accepted(method))
        => (RunRaised /\ calls = <<>>)

\* C2: with an unrecognized method name every element of r and v keeps, during
\* and after the call, the value it had when run_integration was entered.
C2_UnknownMethodKeepsBuffers ==
    (RunEntered /\ ~Accepted(method)) => (r = rPre /\ v = vPre /\ calls = <<>>)

C2_Witness ==
    /\ RunRaised
    /\ method = <<"l","e","a","p","f","r","o","g">>
    /\ ALen(r) >= 3
    /\ r = rPre /\ v = vPre

\* C3: once initialize_arrays has returned, and in every state during and
\* after run_integration, r[0] = r0 and v[0] = v0, and no step wrote index 0.
C3_SeedInvariant ==
    (pc # "initialize_arrays" /\ err # IndexZero)
        => /\ ALen(r) >= 1 /\ ALen(v) >= 1
           /\ r[0] = r0
           /\ v[0] = v0
           /\ \A c \in 1..Len(calls) : calls[c].i # 0

C3_Witness ==
    /\ pc = "done"
    /\ Accepted(method)
    /\ Len(calls) >= 3
    /\ r[0] = r0 /\ v[0] = v0
    /\ r[1] # r0 /\ v[1] # v0

\* The stepper the method name selects, applied to one state.
SelectedName(m) == IF lower(m) = S_euler THEN "euler_step" ELSE "rk4_step"
SelectedStep(m, r_old, v_old) ==
    IF lower(m) = S_euler THEN euler_step(r_old, v_old, dt, G, M)
                          ELSE rk4_step(r_old, v_old, dt, G, M)

\* C4 (safety part): with an accepted method name and N >= 1 samples the run
\* never raises,
\* makes its Stepper calls at indices 1, 2, ... in that order, and returns
\* after exactly N-1 of them; on return every sample j in 1..N-1 is the result
\* of the selected stepper applied to the final sample j-1, the buffers have
\* length N, and each index was written once.
C4_FillsTrajectory ==
    (RunEntered /\ Accepted(method) /\ ALen(r) >= 1)
        => /\ ~RunRaised
           /\ ALen(r) = ALen(t) /\ ALen(v) = ALen(t)
           /\ Len(calls) <= ALen(r) - 1
           /\ \A c \in 1..Len(calls) :
                  /\ calls[c].i = c
                  /\ calls[c].stepper = SelectedName(method)
           /\ RunReturned =>
                  /\ Len(calls) = ALen(r) - 1
                  /\ \A j \in 1..(ALen(r) - 1) :
                         /\ r[j] = SelectedStep(method, r[j - 1], v[j - 1]).r_new
                         /\ v[j] = SelectedStep(method, r[j - 1], v[j - 1]).v_new

\* The driver is one sequential thread: a step that can be taken is taken.
SpecLive == Spec /\ WF_vars(Next)

\* C4, with termination: the above in every state, and a run entered with an
\* accepted method name returns.
C4_RunFillsTrajectory ==
    /\ []C4_FillsTrajectory
    /\ (pc = "loop" /\ Accepted(method)) ~> RunReturned

C4_Witness ==
    /\ pc = "done"
    /\ method = <<"R","K","4">>
    /\ Len(calls) >= 3
    /\ VIsFin(r[3]) /\ r[3] # r[2] /\ v[1] # v[0]
    /\ r[1] # euler_step(r[0], v[0], dt, G, M).r_new

\* Some acceleration evaluation of the run received a position of zero norm.
ZeroNormEvaluated ==
    \E c \in 1..Len(calls) :
        \E e \in 1..Len(calls[c].res.evals) : norm[calls[c].res.evals[e]] = Fin(0)

NoNaNSample ==
    \A j \in DOMAIN r : ~VHasNaN(r[j]) /\ ~VHasNaN(v[j])

\* C8: an acceleration evaluation at a position of zero norm ends the run in a
\* failure: the loop does not go on and no sample holds a nan.
C8_ZeroNormIsFatal ==
    ZeroNormEvaluated => (pc = "failed" /\ NoNaNSample)

-----------------------------------------------------------------------------
(* Properties of compute_aphelion (specification SpecAp) *)

ApReturned == pc \in {"done", "failed"} /\ ap # NoAp

Dist(j) == norm[r[j]]

\* Sample j holds the maximum distance among the samples of S, a nan counting
\* as the maximum when there is one (as numpy's max does).
IsMaxIn(j, S) ==
    IF \E q \in S : IsNaN(Dist(q))
    THEN IsNaN(Dist(j))
    ELSE \A q \in S : Dist(q).n <= Dist(j).n

FirstMaxIn(S) == CHOOSE j \in S : IsMaxIn(j, S) /\ \A q \in S : q < j => ~IsMaxIn(q, S)

\* max(1, floor(0.05 * n)), with the floor taken on twentieths.
Cutoff(n) == IF n \div 20 >= 1 THEN n \div 20 ELSE 1

\* C5: on a trajectory of fewer than 2 samples compute_aphelion fails, and
\* fails before any subscript or slice of distances or v is taken.
C5_ShortTrajectoryFailsFirst ==
    (ApReturned /\ ALen(r) < 2) => (~ap.ok /\ ap.trace = <<>>)

\* C6: on a trajectory of N >= 2 samples compute_aphelion returns the first
\* index of the maximum distance when that index is not 0, and otherwise the
\* first index of the maximum over cutoff..N-1, cutoff = max(1, floor(0.05 N));
\* the index returned is never 0, in the second case lies in cutoff..N-1, and
\* the distance and velocity returned are those of the sample at that index.
C6_AphelionIndex ==
    (ApReturned /\ ALen(r) >= 2)
        => /\ ap.ok
           /\ LET all  == 0..(ALen(r) - 1)
                   tail == Cutoff(ALen(r))..(ALen(r) - 1)
               IN  IF FirstMaxIn(all) # 0
                   THEN ap.idx_ap = FirstMaxIn(all)
                   ELSE ap.idx_ap = FirstMaxIn(tail) /\ ap.idx_ap \in tail
           /\ ap.idx_ap \in 1..(ALen(r) - 1)
           /\ ap.pos_ap = Dist(ap.idx_ap)
           /\ ap.vel_ap = v[ap.idx_ap]

\* The maximum is at sample 0, two samples are excluded, and the excluded
\* sample 1 is farther out than the sample returned.
C6_Witness ==
    /\ pc = "done"
    /\ ALen(r) >= 40
    /\ FirstMaxIn(0..(ALen(r) - 1)) = 0
    /\ Cutoff(ALen(r)) = 2
    /\ ap.idx_ap = ALen(r) - 1
    /\ Dist(1).n > ap.pos_ap.n
    /\ ap.vel_ap = v[ALen(r) - 1]

-----------------------------------------------------------------------------
(* Properties of the time grid (specification SpecTime) *)

BuffersBuilt == pc = "run_integration"
TotalTime    == get_time_settings(cfg, planet_cfg).t_max

\* C7, as stated: for positive total time T and step dt the buffers have
\* length floor(T / dt).
C7_LengthIsFloor ==
    (BuffersBuilt /\ TotalTime > 0 /\ dt > 0)
        => (ALen(r) = TotalTime \div dt /\ ALen(v) = TotalTime \div dt)

\* C7, amended: the buffers have length ceil(T / dt), the least N with
\* N * dt >= T.
C7_LengthIsCeil ==
    (BuffersBuilt /\ TotalTime > 0 /\ dt > 0)
        => /\ ALen(r) = ALen(v)
           /\ ALen(r) * dt >= TotalTime
           /\ (ALen(r) - 1) * dt < TotalTime

C7_Witness ==
    /\ BuffersBuilt
    /\ TotalTime > 0
    /\ TotalTime % dt # 0
    /\ ALen(r) = (TotalTime \div dt) + 1
    /\ ALen(r) >= 3

-----------------------------------------------------------------------------
(* Properties of the steppers (specification SpecStep) *)

Stepped(name) == pc = "stepped" /\ step.stepper = name

\* x + c * y, componentwise
Axpy(x, c, y) == <<FAdd[x[1], FMul[c, y[1]]], FAdd[x[2], FMul[c, y[2]]]>>

A(p) == acc_fn[G, M, p]

\* C9: euler_step maps (r, v) to (r + v*dt, v + a(r)*dt), evaluates the
\* acceleration once, at r, and leaves r and v as they were.
C9_EulerStep ==
    Stepped("euler_step")
        => /\ step.res.r_new = Axpy(r0, Fin(dt), v0)
           /\ step.res.v_new = Axpy(v0, Fin(dt), A(r0))
           /\ step.res.evals = <<r0>>
           /\ step.res.r_old = r0
           /\ step.res.v_old = v0

\* The old and the updated velocity differ, and so do the positions they give.
C9_Witness ==
    /\ Stepped("euler_step")
    /\ VIsFin(step.res.v_new)
    /\ step.res.v_new # v0
    /\ v0 # Vec(0, 0)
    /\ step.res.r_new = Axpy(r0, Fin(dt), v0)
    /\ step.res.r_new # Axpy(r0, Fin(dt), step.res.v_new)

\* C10: rk4_step evaluates the acceleration four times, at r, r + k1_r*dt/2,
\* r + k2_r*dt/2 and r + k3_r*dt in that order, with k1_r = v,
\* k2_r = v + k1_v*dt/2, k3_r = v + k2_v*dt/2, k4_r = v + k3_v*dt, and returns
\* r + (dt/6)(k1_r + 2 k2_r + 2 k3_r + k4_r), v + (dt/6)(k1_v + 2 k2_v + 2 k3_v + k4_v).
C10_Rk4Step ==
    Stepped("rk4_step")
        => LET h2   == FDiv[Fin(dt), Fin(2)]
               h6   == FDiv[Fin(dt), Fin(6)]
               e    == step.res.evals
               k1_v == A(r0)
               k2_r == Axpy(v0, h2, k1_v)
               k2_v == A(Axpy(r0, h2, v0))
               k3_r == Axpy(v0, h2, k2_v)
               k3_v == A(Axpy(r0, h2, k2_r))
               k4_r == Axpy(v0, Fin(dt), k3_v)
               k4_v == A(Axpy(r0, Fin(dt), k3_r))
               W(x, k1, k2, k3, k4) ==
                   Axpy(x, h6, Axpy(Axpy(Axpy(k1, Fin(2), k2), Fin(2), k3), Fin(1), k4))
           IN  /\ Len(e) = 4
               /\ e[1] = r0
               /\ e[2] = Axpy(r0, h2, v0)
               /\ e[3] = Axpy(r0, h2, k2_r)
               /\ e[4] = Axpy(r0, Fin(dt), k3_r)
               /\ step.res.r_new = W(r0, v0, k2_r, k3_r, k4_r)
               /\ step.res.v_new = W(v0, k1_v, k2_v, k3_v, k4_v)

\* The four evaluation points are finite and pairwise distinct, and the
\* result differs from the Euler step's.
C10_Witness ==
    /\ Stepped("rk4_step")
    /\ VIsFin(step.res.r_new) /\ VIsFin(step.res.v_new)
    /\ Cardinality({step.res.evals[e] : e \in 1..4}) = 4
    /\ A(step.res.evals[3]) # Vec(0, 0)
    /\ A(step.res.evals[2]) # A(step.res.evals[3])
    /\ step.res.r_new # euler_step(r0, v0, dt, G, M).r_new
    /\ step.res.v_new # v0

====
